---- MODULE Spec2Model ----
(***************************************************************************)
(* Model of Postman.send (node-postman): the MX grouping of recipients,    *)
(* the per-group SMTP session driven by socket 'data' events (plain socket *)
(* handler, STARTTLS upgrade, TLS socket handler), the asynchronous        *)
(* message build after the 354 response, and the sequential fail-fast loop *)
(* over the recipient groups.                                              *)
(*                                                                         *)
(* Source: src/unnamed/part_000, lines 261-612 (the multi-recipient        *)
(* version of postman.ts).  src/postman.ts holds the two earlier,          *)
(* single-recipient versions of the same handlers.                         *)
(***************************************************************************)
EXTENDS Integers, Sequences, FiniteSets, TLC

VARIABLES env, groups, sess, cur, result, error, script, ref, refBuf, lookup,
          input, output, step

\* the state of send()
sendvars == <<env, groups, sess, cur, result, error, script, ref, refBuf, lookup>>
\* the argument, the result and the number of calls made of a function of
\* dkim.ts that is called on its own
callvars == <<input, output, step>>

vars == <<sendvars, callvars>>

(***************************************************************************)
(* Bounds of the model.                                                    *)
(***************************************************************************)
\* cap on the number of entries written to one socket beyond those of a
\* complete delivery
MaxExtra == 1
\* cap on the number of createEmailMessage promises pending in one session
MaxBuild == 1
\* cap on the number of response lines the reference reader buffers
MaxBuf == 1
\* cap on the number of MX records in one DNS answer
MaxRecords == 2
\* cap on the number of characters of a body given to relaxedBody
MaxBody == 4
\* cap on the number of header fields of a block given to relaxedHeaders
MaxHeaders == 3

(***************************************************************************)
(* Strings are sequences of characters.  The functions of dkim.ts are      *)
(* written over them with the string methods and regular expressions of    *)
(* the source.                                                             *)
(***************************************************************************)
\* no function of dkim.ts is being called on its own
NoCall == input = <<>> /\ output = <<>> /\ step = 0

\* \s of a regular expression
IsSpace(c) == c \in {" ", "\t", "\r", "\n"}

RECURSIVE NormalizeNewlines(_)
\* .replace(/\r?\n|\r/g, '\n')
NormalizeNewlines(s) ==
    IF s = <<>> THEN <<>>
    ELSE IF Len(s) >= 2 /\ s[1] = "\r" /\ s[2] = "\n"
    THEN <<"\n">> \o NormalizeNewlines(SubSeq(s, 3, Len(s)))
    ELSE IF s[1] \in {"\r", "\n"}
    THEN <<"\n">> \o NormalizeNewlines(Tail(s))
    ELSE <<s[1]>> \o NormalizeNewlines(Tail(s))

RECURSIVE Split(_, _)
\* .split(sep) for a separator of one character: at least one piece
Split(s, sep) ==
    IF \A i \in DOMAIN s : s[i] # sep THEN <<s>>
    ELSE LET k == CHOOSE i \in DOMAIN s :
                      s[i] = sep /\ \A j \in 1..(i - 1) : s[j] # sep
         IN  <<SubSeq(s, 1, k - 1)>> \o Split(SubSeq(s, k + 1, Len(s)), sep)

RECURSIVE Join(_, _)
\* .join(sep)
Join(pieces, sep) ==
    IF pieces = <<>> THEN <<>>
    ELSE IF Len(pieces) = 1 THEN pieces[1]
    ELSE pieces[1] \o sep \o Join(Tail(pieces), sep)

RECURSIVE RTrim(_)
\* .replace(/\s*$/, '')
RTrim(s) ==
    IF s # <<>> /\ IsSpace(s[Len(s)]) THEN RTrim(SubSeq(s, 1, Len(s) - 1))
    ELSE s

RECURSIVE LTrim(_)
LTrim(s) == IF s # <<>> /\ IsSpace(s[1]) THEN LTrim(Tail(s)) ELSE s

\* .trim()
Trim(s) == LTrim(RTrim(s))

RECURSIVE SingleSpaces(_)
\* .replace(/\s+/g, ' ')
SingleSpaces(s) ==
    IF s = <<>> THEN <<>>
    ELSE IF IsSpace(s[1]) THEN <<" ">> \o SingleSpaces(LTrim(s))
    ELSE <<s[1]>> \o SingleSpaces(Tail(s))

RECURSIVE StripNewlines(_)
StripNewlines(s) ==
    IF s # <<>> /\ s[Len(s)] = "\n"
    THEN StripNewlines(SubSeq(s, 1, Len(s) - 1)) ELSE s

\* A canonicalization that appends a newline to the ones the body ends with.
OneFinalNewline_Append(s) == s \o <<"\n">>

\* .replace(/\n*$/, '\n')
OneFinalNewline(s) == StripNewlines(s) \o <<"\n">>

RECURSIVE ToCRLF(_)
\* .replace(/\n/g, '\r\n')
ToCRLF(s) ==
    IF s = <<>> THEN <<>>
    ELSE IF s[1] = "\n" THEN <<"\r", "\n">> \o ToCRLF(Tail(s))
    ELSE <<s[1]>> \o ToCRLF(Tail(s))

\* A canonicalization of a line that leaves one space of its trailing
\* whitespace.
RelaxedBodyLine_NoRTrim(line) == SingleSpaces(line)

\* the function relaxedBody maps over the lines
RelaxedBodyLine(line) == SingleSpaces(RTrim(line))

\* DKIMCanonicalizer.relaxedBody
relaxedBody(body) ==
    LET lines == Split(NormalizeNewlines(body), "\n")
    IN  ToCRLF(OneFinalNewline(
            Join([i \in DOMAIN lines |-> RelaxedBodyLine(lines[i])], <<"\n">>)))

\* .toLowerCase()
LowerChar(c) ==
    IF c = "F" THEN "f" ELSE IF c = "C" THEN "c" ELSE IF c = "T" THEN "t"
    ELSE IF c = "S" THEN "s" ELSE c

ToLowerCase(s) == [i \in DOMAIN s |-> LowerChar(s[i])]

\* DKIMCanonicalizer.relaxedHeaderLine
relaxedHeaderLine(line) ==
    LET value == Split(line, ":")
    IN  [key |-> Trim(ToLowerCase(value[1])),
         value |-> Trim(SingleSpaces(Join(Tail(value), <<":">>)))]

RECURSIVE JoinLines(_)
\* the 'join lines' part of the first loop of relaxedHeaders: from the
\* last line up, a line other than the first that begins with whitespace
\* is appended to the line before it
JoinLines(lines) ==
    IF Len(lines) <= 1 THEN lines
    ELSE LET last == lines[Len(lines)]
             front == SubSeq(lines, 1, Len(lines) - 1)
         IN  IF last # <<>> /\ IsSpace(last[1])
             THEN JoinLines([front EXCEPT ![Len(front)] = @ \o last])
             ELSE JoinLines(front) \o <<last>>

\* A selection that lets an occurrence higher in the block replace the one
\* found before (no test of 'key in headerFields').
SelectedLine_Topmost(parsed, k) ==
    CHOOSE i \in DOMAIN parsed :
        parsed[i].key = k /\ \A j \in DOMAIN parsed : j < i => parsed[j].key # k

\* The line whose value headerFields[k] holds after the first loop: the
\* loop runs from the last line up and keeps the value found first.
SelectedLine(parsed, k) ==
    CHOOSE i \in DOMAIN parsed :
        parsed[i].key = k /\ \A j \in DOMAIN parsed : j > i => parsed[j].key # k

\* DKIMCanonicalizer.relaxedHeaders
relaxedHeaders(headers, fieldNames) ==
    LET names == Split(ToLowerCase(fieldNames), ":")
        includedFields == [i \in DOMAIN names |-> Trim(names[i])]
        headerLines == JoinLines(Split(NormalizeNewlines(headers), "\n"))
        parsed == [i \in DOMAIN headerLines |-> relaxedHeaderLine(headerLines[i])]
        \* headerFields[k], undefined or '' being falsy
        Truthy(k) ==
            /\ \E i \in DOMAIN parsed : parsed[i].key = k
            /\ parsed[SelectedLine(parsed, k)].value # <<>>
        kept == SelectSeq(includedFields, Truthy)
    IN  [headers |->
            Join([i \in DOMAIN kept |->
                     kept[i] \o <<":">> \o parsed[SelectedLine(parsed, kept[i])].value],
                 <<"\r", "\n">>) \o <<"\r", "\n">>,
         fieldNames |-> Join(kept, <<":">>)]

(***************************************************************************)
(* foldLines, generateDKIMHeader and the folding of the signature in       *)
(* DKIMSign.                                                               *)
(***************************************************************************)
\* the index at which the last run of whitespace of a line begins, or 0
\* when the line has no whitespace: where /(\s+)[^\s]*$/ matches
LastSpaceRun(line) ==
    IF \A i \in DOMAIN line : ~IsSpace(line[i]) THEN 0
    ELSE LET e == CHOOSE i \in DOMAIN line :
                      IsSpace(line[i]) /\ \A j \in (i + 1)..Len(line) : ~IsSpace(line[j])
         IN  CHOOSE s \in 1..e :
                 /\ \A j \in s..e : IsSpace(line[j])
                 /\ s > 1 => ~IsSpace(line[s - 1])

\* the length of the match of /^[^\n\r]*(\r?\n|\r)/, or 0
FirstNewline(line) ==
    IF \A i \in DOMAIN line : line[i] \notin {"\r", "\n"} THEN 0
    ELSE LET k == CHOOSE i \in DOMAIN line :
                      line[i] \in {"\r", "\n"}
                          /\ \A j \in 1..(i - 1) : line[j] \notin {"\r", "\n"}
         IN  IF line[k] = "\r" /\ k < Len(line) /\ line[k + 1] = "\n"
             THEN k + 1 ELSE k

\* the length of the run of non-whitespace a string begins with:
\* /^[^\s]+(\s*)/ without its group
WordLength(s) ==
    IF \A i \in DOMAIN s : ~IsSpace(s[i]) THEN Len(s)
    ELSE (CHOOSE i \in DOMAIN s :
              IsSpace(s[i]) /\ \A j \in 1..(i - 1) : ~IsSpace(s[j])) - 1

\* one pass of the loop of foldLines (afterSpace = false) for a window
\* of lineLength characters at pos: the line it adds to the result
FoldedLine(str, pos, lineLength) ==
    LET line == SubSeq(str, pos, pos + lineLength - 1)
        nl == FirstNewline(line)
        sp == LastSpaceRun(line)
    IN  IF nl > 0 THEN SubSeq(line, 1, nl)
        ELSE IF sp > 1 THEN SubSeq(line, 1, sp - 1)
        ELSE line \o SubSeq(str, pos + lineLength,
                            pos + lineLength - 1
                                + WordLength(SubSeq(str, pos + lineLength, Len(str))))

RECURSIVE FoldFrom(_, _, _)
FoldFrom(str, pos, lineLength) ==
    IF pos > Len(str) THEN <<>>
    ELSE IF Len(str) - pos + 1 < lineLength THEN SubSeq(str, pos, Len(str))
    ELSE LET line == FoldedLine(str, pos, lineLength)
             next == pos + Len(line)
         IN  line
             \o (IF FirstNewline(SubSeq(str, pos, pos + lineLength - 1)) = 0
                    /\ next <= Len(str)
                 THEN <<"\r", "\n">> ELSE <<>>)
             \o FoldFrom(str, next, lineLength)

\* foldLines(str, lineLength), afterSpace = false
foldLines(str, lineLength) == FoldFrom(str, 1, lineLength)

\* 'DKIM-Signature: ' and 'v=1', 'a=rsa-sha256', 'c=relaxed/relaxed', 'd=' joined by '; '
DkimPrefix ==
    <<"D", "K", "I", "M", "-", "S", "i", "g", "n", "a", "t", "u", "r",
    "e", ":", " ", "v", "=", "1", ";", " ", "a", "=", "r", "s", "a", "-",
    "s", "h", "a", "2", "5", "6", ";", " ", "c", "=", "r", "e", "l", "a",
    "x", "e", "d", "/", "r", "e", "l", "a", "x", "e", "d", ";", " ", "d",
    "=">>

\* generateDKIMHeader, given the hash of the canonical body and the names
\* relaxedHeaders kept
generateDKIMHeader(domainName, keySelector, bodyHash, fieldNames) ==
    foldLines(DkimPrefix \o domainName
                \o <<";", " ", "q", "=", "d", "n", "s", "/", "t", "x", "t", ";", " ",
                     "s", "=">> \o keySelector
                \o <<";", " ", "b", "h", "=">> \o bodyHash
                \o <<";", " ", "h", "=">> \o fieldNames, 76)
        \o <<";", "\r", "\n", " ", "b", "=">>

RECURSIVE Every75(_)
\* the matches of .{75}(?!\r?\n|\r) in a signature (base64: no line ends)
Every75(s) ==
    IF Len(s) < 75 THEN s
    ELSE SubSeq(s, 1, 75) \o <<"\r", "\n", " ">> \o Every75(SubSeq(s, 76, Len(s)))

\* signature.replace(/(^.{73}|.{75}(?!\r?\n|\r))/g, '$&\r\n ').trim()
FoldSignature(signature) ==
    Trim(IF Len(signature) < 73 THEN signature
         ELSE SubSeq(signature, 1, 73) \o <<"\r", "\n", " ">>
                  \o Every75(SubSeq(signature, 74, Len(signature))))

(***************************************************************************)
(* Addresses and envelopes.  An address is user@domain; split('@')[1]      *)
(* yields the domain.                                                      *)
(***************************************************************************)
Addr(u, d) == [user |-> u, domain |-> d]

A1 == Addr("a", "ex1.com")
B1 == Addr("b", "ex1.com")
C2 == Addr("c", "ex2.com")

Sender == Addr("me", "home.org")

\* recipient.split('@')[1]
DomainOf(r) == r.domain

\* An optional string[] field of SendEnvelope: undefined, or an array
\* (an empty array is a defined, truthy value in JavaScript).
Undefined == [defined |-> FALSE, list |-> <<>>]
List(l) == [defined |-> TRUE, list |-> l]

\* The text body of an envelope: its lines, each a sequence of characters.
PlainBody == << <<"h", "i">> >>
\* a body with a line '.' and a line '..x'
DottedBody == << <<"h", "i">>, <<".">>, <<".", ".", "x">> >>

\* The envelopes sent: a single recipient, without and with attachments;
\* one recipient of each kind over two domains; an address listed in both
\* to and cc, with an html part; an empty cc array and a bcc recipient, with body lines that
\* begin with '.'.
Envelope(to, cc, bcc, att, body) ==
    [from |-> Sender, to |-> to, cc |-> cc, bcc |-> bcc, attachments |-> att,
     body |-> body, html |-> FALSE]

\* the same envelope with the optional html part
WithHtml(e) == [e EXCEPT !.html = TRUE]

Envelopes ==
    { Envelope(<<A1>>, Undefined, Undefined, FALSE, PlainBody),
      Envelope(<<A1>>, Undefined, Undefined, TRUE, PlainBody),
      Envelope(<<A1>>, List(<<B1>>), List(<<C2>>), FALSE, PlainBody),
      WithHtml(Envelope(<<A1>>, List(<<A1>>), Undefined, FALSE, PlainBody)),
      Envelope(<<B1>>, List(<<>>), List(<<A1>>), FALSE, DottedBody) }

(***************************************************************************)
(* getRecipientsByMx: to, cc and bcc are concatenated, grouped by domain   *)
(* in order of first appearance, one group per domain.                     *)
(***************************************************************************)
AllRecipients(e) == e.to \o e.cc.list \o e.bcc.list

RECURSIVE DomainKeys(_, _)
\* Object.keys(domainMap): the domains in insertion order
DomainKeys(rs, seen) ==
    IF rs = <<>> THEN <<>>
    ELSE IF DomainOf(Head(rs)) \in seen THEN DomainKeys(Tail(rs), seen)
    ELSE <<DomainOf(Head(rs))>>
             \o DomainKeys(Tail(rs), seen \cup {DomainOf(Head(rs))})

\* A grouping that keeps only the last recipient of a domain
\* (domainMap[domain] = [recipient]).
DomainMap_Overwrite(rs, d) ==
    LET m == SelectSeq(rs, LAMBDA r : DomainOf(r) = d)
    IN  IF m = <<>> THEN m ELSE <<m[Len(m)]>>

\* domainMap[domain]: the recipients of the domain, in push order
DomainMap(rs, d) == SelectSeq(rs, LAMBDA r : DomainOf(r) = d)

\* the exchange getMailExchange resolves for a domain
MxHostOf(d) == <<"mx", d>>

(***************************************************************************)
(* getMailExchange: one MX lookup, with its timer and its DNS callback.    *)
(*   timer     the setTimeout of the lookup is pending                     *)
(*   answered  dns.resolveMx has called back, with addresses               *)
(*   promise   pending | resolved | rejected; value: exchange or message   *)
(***************************************************************************)
MxRecord(p, x) == [priority |-> p, exchange |-> x]

MxRecords == {MxRecord(20, "mx1"), MxRecord(10, "mx2"), MxRecord(10, "mx3")}

\* what dns.resolveMx passes to its callback: err, or the addresses
DnsError == [err |-> TRUE, addresses |-> <<>>]
DnsOk(l) == [err |-> FALSE, addresses |-> l]
DnsAnswers ==
    {DnsError} \cup {DnsOk(l) : l \in UNION {[1..n -> MxRecords] : n \in 0..MaxRecords}}

RECURSIVE InsertRecord(_, _)
\* r goes before the first record x of the sorted list with
\* r.priority - x.priority < 0
InsertRecord(r, sorted) ==
    IF sorted = <<>> THEN <<r>>
    ELSE IF r.priority - Head(sorted).priority < 0 THEN <<r>> \o sorted
    ELSE <<Head(sorted)>> \o InsertRecord(r, Tail(sorted))

\* A lookup that takes the first record as the resolver returned it.
SortByPriority_Unsorted(l) == l

RECURSIVE SortByPriority(_)
\* addresses.sort((a, b) => a.priority - b.priority): ascending and stable
SortByPriority(l) ==
    IF l = <<>> THEN <<>>
    ELSE InsertRecord(l[Len(l)], SortByPriority(SubSeq(l, 1, Len(l) - 1)))

NewLookup ==
    [timer |-> TRUE, answered |-> FALSE, addresses |-> <<>>,
     promise |-> "pending", value |-> ""]

\* resolve / reject of the lookup's promise: a settled promise stays as it is
SettleLookup(lk, how, v) ==
    IF lk.promise = "pending"
    THEN [lk EXCEPT !.promise = how, !.value = v] ELSE lk

\* A lookup whose timer expires without rejecting.
OnLookupTimeout_Ignore(lk) == [lk EXCEPT !.timer = FALSE]

\* the setTimeout callback
OnLookupTimeout(lk) ==
    SettleLookup([lk EXCEPT !.timer = FALSE], "rejected", "DNS resolution timed out")

\* the dns.resolveMx callback
OnResolveMx(lk, ans) ==
    LET l0 == [lk EXCEPT !.timer = FALSE, !.answered = TRUE,
                         !.addresses = ans.addresses]
    IN  IF ans.err
        THEN SettleLookup(l0, "rejected", "Failed to resolve MX records")
        ELSE IF Len(ans.addresses) = 0
        THEN SettleLookup(l0, "rejected", "No MX records found")
        ELSE SettleLookup(l0, "resolved",
                          SortByPriority(ans.addresses)[1].exchange)

\* the lookup of a domain that resolved to its exchange
ResolvedLookup(d) ==
    [timer |-> FALSE, answered |-> TRUE,
     addresses |-> <<MxRecord(10, MxHostOf(d))>>,
     promise |-> "resolved", value |-> MxHostOf(d)]

\* the domains looked up for an envelope
DomainsOf(e) == {DomainOf(AllRecipients(e)[i]) : i \in 1..Len(AllRecipients(e))}

getRecipientsByMx(e) ==
    LET rs == AllRecipients(e)
        ks == DomainKeys(rs, {})
    IN  [i \in 1..Len(ks) |->
            [mxHost |-> MxHostOf(ks[i]), recipients |-> DomainMap(rs, ks[i])]]

(***************************************************************************)
(* Server output.  A response line is  <code><'-' or ' '><text>;  a data   *)
(* event carries a chunk of one or more lines.                             *)
(***************************************************************************)
Line(c, f, t) == [code |-> c, fin |-> f, text |-> t]

Lines ==
    { Line(220, TRUE, "mx ESMTP"),
      Line(220, TRUE, "Ready to start TLS"),
      Line(250, FALSE, "mx"),
      Line(250, FALSE, "STARTTLS"),
      Line(250, TRUE, "STARTTLS"),
      Line(250, TRUE, "Ok"),
      Line(250, TRUE, "2.0.0 Ok"),
      Line(354, TRUE, "End data"),
      Line(451, TRUE, "try later"),
      Line(550, TRUE, "rejected") }

\* A data event carries one line, a response of two lines, the end of one
\* response together with the next response, or two responses.
Chunks ==
    {<<l>> : l \in Lines}
    \cup { <<Line(250, FALSE, "mx"), Line(250, TRUE, "Ok")>>,
           <<Line(250, FALSE, "STARTTLS"), Line(250, TRUE, "Ok")>>,
           <<Line(250, FALSE, "mx"), Line(250, TRUE, "STARTTLS")>>,
           <<Line(250, FALSE, "mx"), Line(250, TRUE, "2.0.0 Ok")>>,
           <<Line(250, TRUE, "Ok"), Line(250, TRUE, "Ok")>>,
           <<Line(250, TRUE, "Ok"), Line(354, TRUE, "End data")>>,
           <<Line(250, TRUE, "Ok"), Line(550, TRUE, "rejected")>>,
           <<Line(354, TRUE, "End data"), Line(250, TRUE, "2.0.0 Ok")>> }

\* texts that contain the substring 'TLS'
TextsWithTLS == {"Ready to start TLS", "STARTTLS"}
\* texts that contain the substring '2.0.0'
TextsWith200 == {"2.0.0 Ok"}

\* parseInt(serverData.substring(0, 3))
Code(chunk) == chunk[1].code

\* serverData.includes('250-STARTTLS')
Includes250STARTTLS(chunk) ==
    \E i \in 1..Len(chunk) :
        chunk[i].code = 250 /\ ~chunk[i].fin /\ chunk[i].text = "STARTTLS"

\* serverData.includes('TLS')
IncludesTLS(chunk) == \E i \in 1..Len(chunk) : chunk[i].text \in TextsWithTLS

\* tlsResponse.includes('2.0.0')
Includes200(chunk) == \E i \in 1..Len(chunk) : chunk[i].text \in TextsWith200

(***************************************************************************)
(* What is written to a socket: commands, the message and the '.' line.    *)
(***************************************************************************)
Cmd(c) == [cmd |-> c, arg |-> <<>>]
RcptTo(r) == [cmd |-> "RCPT TO", arg |-> <<r>>]
Payload(m) == [cmd |-> "MESSAGE", arg |-> <<m>>]

Header(n, v) == [name |-> n, addrs |-> v]

CRLF == <<"\r", "\n">>

\* The text encodeAttachment returns: a template literal whose lines end as
\* the lines of the source file end, with LF.  The content of a line, which
\* holds no CR and no LF, is one element of the text.
encodeAttachment ==
    <<"\n", "--mixed", "\n", "Content-Type: type; name", "\n",
      "Content-Transfer-Encoding: base64", "\n",
      "Content-Disposition: attachment; filename", "\n", "\n",
      "base64Content", "\n">>

\* The text of the message, in the order createEmailMessage appends to it
\* (options.dkim is not set); the body is the envelope's lines joined by
\* CRLF.
MessageText(e) ==
    <<"Message-ID: id">> \o CRLF \o <<"From: from">> \o CRLF
        \o <<"To: to">> \o CRLF
        \o (IF e.cc.defined THEN <<"CC: cc">> \o CRLF ELSE <<>>)
        \o (IF e.bcc.defined THEN <<"BCC: bcc">> \o CRLF ELSE <<>>)
        \o <<"Subject: subject">> \o CRLF \o <<"MIME-Version: 1.0">> \o CRLF
        \o <<"Content-Type: multipart/mixed">> \o CRLF \o CRLF
        \o <<"--mixed">> \o CRLF
        \o <<"Content-Type: multipart/alternative">> \o CRLF \o CRLF
        \o <<"--alternative">> \o CRLF
        \o <<"Content-Type: text/plain">> \o CRLF \o CRLF
        \o Join(e.body, CRLF) \o CRLF
        \o (IF e.html
            THEN <<"--alternative">> \o CRLF \o <<"Content-Type: text/html">>
                     \o CRLF \o CRLF \o <<"html">> \o CRLF
            ELSE <<>>)
        \o <<"--alternative--">> \o CRLF
        \o (IF e.attachments THEN encodeAttachment ELSE <<>>)
        \o <<"--mixed--">> \o CRLF

\* The message createEmailMessage builds: the header block (values other
\* than address lists are not modelled here), the lines of the
\* text/plain part, which are the lines of the envelope's body as given,
\* and the text of the whole message.
createEmailMessage(e) ==
    [headers |->
        <<Header("Message-ID", <<>>), Header("From", <<e.from>>),
          Header("To", e.to)>>
        \o (IF e.cc.defined THEN <<Header("CC", e.cc.list)>> ELSE <<>>)
        \o (IF e.bcc.defined THEN <<Header("BCC", e.bcc.list)>> ELSE <<>>)
        \o <<Header("Subject", <<>>), Header("MIME-Version", <<>>),
             Header("Content-Type", <<>>)>>,
     body |-> e.body,
     text |-> MessageText(e)]

(***************************************************************************)
(* One session: the state the closures of one loop iteration share.        *)
(*   conn     none | open | ended (end() called) | destroyed | closed (by  *)
(*            the peer)                                                    *)
(*   timer    the socket's idle timeout is armed                           *)
(*   tls      none | handshake (tls.connect called) | up                   *)
(*   building createEmailMessage promises not yet settled                  *)
(*   promise  the promise awaited by the loop; err its rejection reason    *)
(*   wire     what the socket accepted for transmission, in order          *)
(***************************************************************************)
NoSession ==
    [conn |-> "none", timer |-> FALSE, greeted |-> FALSE, tls |-> "none",
     tlsGreeted |-> FALSE, building |-> 0, promise |-> "pending",
     err |-> "", wire |-> <<>>]

\* net.createConnection, client.setTimeout(connectionTimeout), greeted = false
NewSession == [NoSession EXCEPT !.conn = "open", !.timer = TRUE]

\* A socket that transmits what is written to it in whatever state it is.
Write_Always(st, items) == [st EXCEPT !.wire = @ \o items]

\* socket.write: a socket that was ended or destroyed transmits nothing
Write(st, items) ==
    IF st.conn = "open" THEN [st EXCEPT !.wire = @ \o items] ELSE st

\* socket.destroy()
Destroy(st) == [st EXCEPT !.conn = "destroyed", !.timer = FALSE]

\* A socket that stays writable after end().
End_KeepOpen(st) == st

\* tlsSocket.end()
End(st) == IF st.conn = "open" THEN [st EXCEPT !.conn = "ended"] ELSE st

\* reject(new Error(e)): a settled promise stays as it is
Reject(st, e) ==
    IF st.promise = "pending"
    THEN [st EXCEPT !.promise = "rejected", !.err = e] ELSE st

\* resolve('Email sent successfully')
Resolve(st) ==
    IF st.promise = "pending" THEN [st EXCEPT !.promise = "resolved"] ELSE st

(***************************************************************************)
(* The handlers, as functions of the session state.                        *)
(***************************************************************************)
\* client.on('timeout')
OnTimeout(st) == Reject(Destroy(st), "Operation timed out")

\* client.on('error')
OnClientError(st) == Reject(Destroy(st), "SMTP error: socket")

\* tlsSocket.on('error')
OnTlsError(st) == Reject(Destroy(st), "TLS error: socket")

\* client.on('end') and tlsSocket.on('end'): the handlers log; the socket,
\* created without allowHalfOpen, is then closed and emits no more events
OnEnd(st) == [st EXCEPT !.conn = "closed", !.timer = FALSE]

\* A client that goes on without TLS.
OnNoStartTls_Ignore(st) == st

\* the branch taken when the first 250 lacks '250-STARTTLS'
OnNoStartTls(st) == Reject(Destroy(st), "Must accept TLS")

\* the final branch of the client handler
OnPlain5xx(st) == Reject(Destroy(st), "SMTP error: response")

\* A TLS handler without the branch for codes >= 500.
OnTls5xx_Ignore(st) == st

\* the final branch of the TLS handler
OnTls5xx(st) == Reject(Destroy(st), "TLS error: response")

\* client.once('data') and client.on('data')
ClientOnData(st, chunk) ==
    LET s0 == [st EXCEPT !.timer = FALSE]
        code == Code(chunk)
    IN  IF code = 220 /\ ~s0.greeted
        THEN Write(s0, <<Cmd("EHLO")>>)
        ELSE IF code = 250 /\ ~s0.greeted
        THEN LET s1 == [s0 EXCEPT !.greeted = TRUE]
             IN  IF Includes250STARTTLS(chunk)
                 THEN Write(s1, <<Cmd("STARTTLS")>>)
                 ELSE OnNoStartTls(s1)
        ELSE IF code = 220 /\ IncludesTLS(chunk) /\ s0.greeted
        THEN [s0 EXCEPT !.tls = "handshake"]
        ELSE IF code >= 500
        THEN OnPlain5xx(s0)
        ELSE s0

\* the callback of tls.connect
OnSecureConnect(st) == Write([st EXCEPT !.tls = "up"], <<Cmd("EHLO")>>)

\* MAIL FROM, one RCPT TO per recipient of the group, DATA
EnvelopeCommands(e, g) ==
    <<Cmd("MAIL FROM")>>
        \o [i \in 1..Len(g.recipients) |-> RcptTo(g.recipients[i])]
        \o <<Cmd("DATA")>>

\* the .then callback of createEmailMessage: tlsSocket.write(message), the
\* message as it was built, and tlsSocket.write('.\r\n')
OnMessageBuilt(st, e) ==
    Write(st, <<Payload(createEmailMessage(e)), Cmd(".")>>)

\* the 354 branch: without attachments createEmailMessage settles without
\* waiting for I/O and its callback runs before any other event; with
\* attachments it waits for fs.readFile
On354(st, e) ==
    IF e.attachments
    THEN [st EXCEPT !.building = @ + 1]
    ELSE OnMessageBuilt(st, e)

\* the '250 ... 2.0.0' branch
OnAccepted(st) == End(Resolve(Write(st, <<Cmd("QUIT")>>)))

\* tlsSocket.on('data')
TlsOnData(st, chunk, e, g) ==
    LET code == Code(chunk)
    IN  IF code = 250 /\ ~st.tlsGreeted
        THEN [Write(st, EnvelopeCommands(e, g)) EXCEPT !.tlsGreeted = TRUE]
        ELSE IF code = 354
        THEN On354(st, e)
        ELSE IF code = 250 /\ Includes200(chunk)
        THEN OnAccepted(st)
        ELSE IF code >= 500
        THEN OnTls5xx(st)
        ELSE st

\* the .catch(reject) of the 354 branch
OnBuildFailed(st) == Reject(st, "attachment")

(***************************************************************************)
(* The loop of send(): it continues when the awaited promise settles.      *)
(***************************************************************************)
\* A loop that goes on to the next group after a failed one.
Loop_ContinueOnFailure(ss, c, r, e) ==
    IF r # "pending" \/ ss[c].promise = "pending"
    THEN [sess |-> ss, cur |-> c, result |-> r, error |-> e]
    ELSE IF c < Len(ss)
    THEN [sess |-> [ss EXCEPT ![c + 1] = NewSession], cur |-> c + 1,
          result |-> r, error |-> e]
    ELSE [sess |-> ss, cur |-> c, result |-> "ok", error |-> e]

\* for (const group of recipientGroups) { try { await ... } catch ... }
\* ss: the sessions, c: the group awaited, r and e: the outcome of send()
Loop(ss, c, r, e) ==
    IF r # "pending" \/ ss[c].promise = "pending"
    THEN [sess |-> ss, cur |-> c, result |-> r, error |-> e]
    ELSE IF ss[c].promise = "rejected"
    THEN [sess |-> ss, cur |-> c, result |-> "rejected", error |-> ss[c].err]
    ELSE IF c < Len(ss)
    THEN [sess |-> [ss EXCEPT ![c + 1] = NewSession], cur |-> c + 1,
          result |-> r, error |-> e]
    ELSE [sess |-> ss, cur |-> c, result |-> "ok", error |-> e]

(***************************************************************************)
(* Reference reader (history variables ref, refBuf) of the first group's   *)
(* session: refBuf holds the lines received since the last response        *)
(* boundary, ref is the session as it is when, from the session's state at *)
(* that boundary, the same lines reach the same handlers one complete      *)
(* response at a time.  A response is complete at its first line           *)
(* '<code><space>'.                                                        *)
(***************************************************************************)
RefHandle(r, resp) ==
    IF r.conn = "open" /\ r.tls = "none" THEN ClientOnData(r, resp)
    ELSE IF r.conn \in {"open", "ended"} /\ r.tls = "up"
    THEN TlsOnData(r, resp, env, groups[1])
    ELSE r

RECURSIVE RefFeed(_, _, _)
RefFeed(r, buf, lines) ==
    IF lines = <<>> THEN [ref |-> r, buf |-> buf]
    ELSE IF Head(lines).fin
    THEN RefFeed(RefHandle(r, Append(buf, Head(lines))), <<>>, Tail(lines))
    ELSE RefFeed(r, Append(buf, Head(lines)), Tail(lines))

\* the state the reference reader continues from
RefBase == IF refBuf = <<>> THEN sess[1] ELSE ref

(***************************************************************************)
(* The script of a session in which the server answers every step with its *)
(* success response, each response in one data event (history variable     *)
(* script: the number of steps of the script seen so far, or OffScript).   *)
(***************************************************************************)
OffScript == 0 - 1

\* one complete response: every line has the same code, only the last is final
Complete(chunk) ==
    /\ chunk # <<>>
    /\ \A i \in 1..Len(chunk) :
          chunk[i].code = chunk[1].code /\ (chunk[i].fin <=> i = Len(chunk))

Advertises(chunk) == \E i \in 1..Len(chunk) : chunk[i].text = "STARTTLS"

NRcpt(s) == Len(groups[s].recipients)

ScriptLen(s) == 8 + NRcpt(s) + (IF env.attachments THEN 1 ELSE 0)

\* EHLO, STARTTLS, EHLO, MAIL FROM, the RCPT TOs, DATA, message, '.', QUIT
MaxWire(s) == 8 + NRcpt(s) + MaxExtra

Success(s, k, kind, chunk) ==
    LET n == NRcpt(s)
    IN  IF k = 1 THEN kind = "data" /\ Complete(chunk) /\ Code(chunk) = 220
        ELSE IF k = 2
        THEN kind = "data" /\ Complete(chunk) /\ Code(chunk) = 250
                /\ Advertises(chunk)
        ELSE IF k = 3 THEN kind = "data" /\ Complete(chunk) /\ Code(chunk) = 220
        ELSE IF k = 4 THEN kind = "secure"
        ELSE IF k = 5
        THEN kind = "tlsdata" /\ Complete(chunk) /\ Code(chunk) = 250
        ELSE IF k <= 6 + n
        THEN kind = "tlsdata" /\ Complete(chunk) /\ Code(chunk) = 250
                /\ ~Includes200(chunk)
        ELSE IF k = 7 + n
        THEN kind = "tlsdata" /\ Complete(chunk) /\ Code(chunk) = 354
        ELSE IF k < ScriptLen(s) THEN kind = "built"
        ELSE kind = "tlsdata" /\ Complete(chunk) /\ Code(chunk) = 250
                /\ Includes200(chunk)

NextScript(s, kind, chunk) ==
    IF script[s] # OffScript /\ script[s] < ScriptLen(s)
          /\ Success(s, script[s] + 1, kind, chunk)
    THEN script[s] + 1 ELSE OffScript

(***************************************************************************)
(* Initial state: send() has grouped the recipients and opened the         *)
(* connection to the first group.                                          *)
(***************************************************************************)
Init ==
    /\ env \in Envelopes
    /\ groups = getRecipientsByMx(env)
    /\ sess = [s \in 1..Len(groups) |-> IF s = 1 THEN NewSession ELSE NoSession]
    /\ cur = 1
    /\ result = "pending"
    /\ error = ""
    /\ script = [s \in 1..Len(groups) |-> 0]
    /\ ref = NewSession
    /\ refBuf = <<>>
    /\ lookup = [d \in DomainsOf(env) |-> ResolvedLookup(d)]
    /\ NoCall

Sessions == 1..Len(groups)

\* One event of session s: st is the session after its handler ran; the
\* continuation of send() runs before the next event.
Deliver(s, st, kind, chunk) ==
    LET l == Loop([sess EXCEPT ![s] = st], cur, result, error)
    IN  /\ Len(st.wire) <= MaxWire(s)
        /\ sess' = l.sess
        /\ cur' = l.cur
        /\ result' = l.result
        /\ error' = l.error
        /\ script' = [script EXCEPT ![s] = NextScript(s, kind, chunk)]
        /\ UNCHANGED <<env, groups, lookup>>
        /\ UNCHANGED callvars

RefData(s, chunk) ==
    IF s = 1 /\ cur = 1
    THEN LET f == RefFeed(RefBase, refBuf, chunk)
         IN  /\ Len(f.buf) <= MaxBuf
             /\ Len(f.ref.wire) <= MaxWire(1)
             /\ ref' = f.ref
             /\ refBuf' = f.buf
    ELSE UNCHANGED <<ref, refBuf>>

\* an event other than data reaches the reference reader as it reaches the
\* session: st is the session after the event, r the reference reader after
\* it when the event is enabled in the reader's state
RefOther(s, st, enabled, r) ==
    /\ ref' = IF s # 1 \/ cur # 1 THEN ref
              ELSE IF refBuf = <<>> THEN st
              ELSE IF enabled THEN r ELSE ref
    /\ UNCHANGED refBuf

\* a 'data' event of the plain socket
ClientData(s, chunk) ==
    /\ sess[s].conn = "open" /\ sess[s].tls = "none"
    /\ Deliver(s, ClientOnData(sess[s], chunk), "data", chunk)
    /\ RefData(s, chunk)

\* the 'timeout' event of the plain socket
ClientTimeout(s) ==
    /\ sess[s].conn = "open" /\ sess[s].timer
    /\ Deliver(s, OnTimeout(sess[s]), "timeout", <<>>)
    /\ RefOther(s, OnTimeout(sess[s]), ref.conn = "open" /\ ref.timer,
                OnTimeout(ref))

\* an 'error' event of the plain socket
ClientError(s) ==
    /\ sess[s].conn = "open" /\ sess[s].tls = "none"
    /\ Deliver(s, OnClientError(sess[s]), "error", <<>>)
    /\ RefOther(s, OnClientError(sess[s]),
                ref.conn = "open" /\ ref.tls = "none", OnClientError(ref))

\* the TLS handshake succeeds
SecureConnect(s) ==
    /\ sess[s].conn = "open" /\ sess[s].tls = "handshake"
    /\ Deliver(s, OnSecureConnect(sess[s]), "secure", <<>>)
    /\ RefOther(s, OnSecureConnect(sess[s]),
                ref.conn = "open" /\ ref.tls = "handshake", OnSecureConnect(ref))

\* an 'error' event of the TLS socket
TlsError(s) ==
    /\ sess[s].conn \in {"open", "ended"} /\ sess[s].tls # "none"
    /\ Deliver(s, OnTlsError(sess[s]), "tlserror", <<>>)
    /\ RefOther(s, OnTlsError(sess[s]),
                ref.conn \in {"open", "ended"} /\ ref.tls # "none",
                OnTlsError(ref))

\* a 'data' event of the TLS socket
TlsData(s, chunk) ==
    /\ sess[s].conn \in {"open", "ended"} /\ sess[s].tls = "up"
    /\ sess[s].building < MaxBuild \/ Code(chunk) # 354 \/ ~env.attachments
    /\ Deliver(s, TlsOnData(sess[s], chunk, env, groups[s]), "tlsdata", chunk)
    /\ RefData(s, chunk)

\* createEmailMessage fulfils after reading the attachments
MessageBuilt(s) ==
    /\ sess[s].building > 0
    /\ Deliver(s, OnMessageBuilt([sess[s] EXCEPT !.building = @ - 1], env),
               "built", <<>>)
    /\ RefOther(s, OnMessageBuilt([sess[s] EXCEPT !.building = @ - 1], env),
                ref.building > 0,
                OnMessageBuilt([ref EXCEPT !.building = @ - 1], env))

\* createEmailMessage rejects (an attachment cannot be read)
BuildFailed(s) ==
    /\ sess[s].building > 0
    /\ Deliver(s, OnBuildFailed([sess[s] EXCEPT !.building = @ - 1]),
               "buildfailed", <<>>)
    /\ RefOther(s, OnBuildFailed([sess[s] EXCEPT !.building = @ - 1]),
                ref.building > 0, OnBuildFailed([ref EXCEPT !.building = @ - 1]))

\* the server closes the connection: the 'end' event of the socket in use
PeerEnd(s) ==
    /\ sess[s].conn = "open"
    /\ Deliver(s, OnEnd(sess[s]), "end", <<>>)
    /\ RefOther(s, OnEnd(sess[s]), ref.conn = "open", OnEnd(ref))

Next ==
    \/ \E s \in Sessions : \E chunk \in Chunks : ClientData(s, chunk)
    \/ \E s \in Sessions : ClientTimeout(s)
    \/ \E s \in Sessions : ClientError(s)
    \/ \E s \in Sessions : SecureConnect(s)
    \/ \E s \in Sessions : TlsError(s)
    \/ \E s \in Sessions : \E chunk \in Chunks : TlsData(s, chunk)
    \/ \E s \in Sessions : MessageBuilt(s)
    \/ \E s \in Sessions : BuildFailed(s)
    \/ \E s \in Sessions : PeerEnd(s)

Spec == Init /\ [][Next]_vars

(***************************************************************************)
(* The first step of send(): getRecipientsByMx starts one getMailExchange  *)
(* per domain of the envelope and awaits them all (Promise.all); when all  *)
(* have resolved, the loop opens the connection of the first group.        *)
(***************************************************************************)
ToLists ==
    { <<A1>>, <<C2>>, <<A1, B1>>, <<A1, C2>>, <<C2, A1>>, <<A1, A1>>,
      <<A1, C2, B1>> }
CcLists == {Undefined, List(<<>>), List(<<A1>>), List(<<B1>>)}
BccLists == {Undefined, List(<<B1>>), List(<<C2>>)}

MxEnvelopes ==
    {Envelope(to, cc, bcc, FALSE, PlainBody) :
        to \in ToLists, cc \in CcLists, bcc \in BccLists}

InitMx ==
    /\ env \in MxEnvelopes
    /\ lookup = [d \in DomainsOf(env) |-> NewLookup]
    /\ groups = <<>>
    /\ sess = <<>>
    /\ cur = 0
    /\ result = "pending"
    /\ error = ""
    /\ script = <<>>
    /\ ref = NoSession
    /\ refBuf = <<>>
    /\ NoCall

\* the groups with the exchanges the lookups resolved to
ResolvedGroups(e, lks) ==
    LET gs == getRecipientsByMx(e)
    IN  [i \in 1..Len(gs) |->
            [gs[i] EXCEPT !.mxHost = lks[DomainOf(gs[i].recipients[1])].value]]

\* One event of the lookup of domain d: lk is the lookup after its callback
\* ran.  Promise.all rejects with the first rejection, and send() with it;
\* it fulfils when the last lookup has resolved, and send() connects to the
\* first group.
Gather(d, lk) ==
    LET lks == [lookup EXCEPT ![d] = lk]
    IN  /\ lookup' = lks
        /\ IF result # "pending" \/ groups # <<>>
           THEN UNCHANGED <<groups, sess, cur, result, error, script, ref>>
           ELSE IF lk.promise = "rejected"
           THEN /\ result' = "thrown"
                /\ error' = lk.value
                /\ UNCHANGED <<groups, sess, cur, script, ref>>
           ELSE IF \A x \in DOMAIN lks : lks[x].promise = "resolved"
           THEN /\ groups' = ResolvedGroups(env, lks)
                /\ sess' = [s \in 1..Len(groups') |->
                               IF s = 1 THEN NewSession ELSE NoSession]
                /\ cur' = 1
                /\ script' = [s \in 1..Len(groups') |-> 0]
                /\ ref' = NewSession
                /\ UNCHANGED <<result, error>>
           ELSE UNCHANGED <<groups, sess, cur, result, error, script, ref>>
        /\ UNCHANGED <<env, refBuf>>
        /\ UNCHANGED callvars

\* dns.resolveMx calls back
MxAnswer(d, ans) ==
    /\ ~lookup[d].answered
    /\ Gather(d, OnResolveMx(lookup[d], ans))

\* the lookup's timer fires
MxTimeout(d) ==
    /\ lookup[d].timer
    /\ Gather(d, OnLookupTimeout(lookup[d]))

NextMx ==
    \/ \E d \in DOMAIN lookup : \E ans \in DnsAnswers : MxAnswer(d, ans)
    \/ \E d \in DOMAIN lookup : MxTimeout(d)

SpecMx == InitMx /\ [][NextMx]_vars

(***************************************************************************)
(* Calls of DKIMCanonicalizer.relaxedBody: on a body, and on its result.   *)
(***************************************************************************)
\* send() is not running
NoSend ==
    /\ env = Envelope(<<>>, Undefined, Undefined, FALSE, <<>>)
    /\ groups = <<>>
    /\ sess = <<>>
    /\ cur = 0
    /\ result = "pending"
    /\ error = ""
    /\ script = <<>>
    /\ ref = NoSession
    /\ refBuf = <<>>
    /\ lookup = <<>>

BodyChars == {"a", " ", "\t", "\r", "\n"}

\* "Hello  world  \r\n\r\n\r\n"
HelloBody ==
    <<"H", "e", "l", "l", "o", " ", " ", "w", "o", "r", "l", "d", " ", " ",
      "\r", "\n", "\r", "\n", "\r", "\n">>

Bodies == UNION {[1..n -> BodyChars] : n \in 0..MaxBody} \cup {HelloBody}

InitBody ==
    /\ NoSend
    /\ input \in Bodies
    /\ output = <<>>
    /\ step = 0

\* relaxedBody(body)
Canonicalize ==
    /\ step = 0
    /\ output' = relaxedBody(input)
    /\ step' = 1
    /\ UNCHANGED <<input, sendvars>>

\* relaxedBody(relaxedBody(body))
Recanonicalize ==
    /\ step = 1
    /\ input' = output
    /\ output' = relaxedBody(output)
    /\ step' = 2
    /\ UNCHANGED sendvars

NextBody == Canonicalize \/ Recanonicalize

SpecBody == InitBody /\ [][NextBody]_vars

(***************************************************************************)
(* Calls of DKIMCanonicalizer.relaxedHeaders.  The input is kept as the    *)
(* header fields and the requested names it is written from: a name as     *)
(* written and in lower case, a value as written and as it is after        *)
(* unfolding, with single spaces and trimmed.                              *)
(***************************************************************************)
Name(raw, lower) == [raw |-> raw, lower |-> lower]
Value(raw, canon) == [raw |-> raw, canon |-> canon]

HeaderNames ==
    { Name(<<"F", "r", "o", "m">>, <<"f", "r", "o", "m">>),
      Name(<<"f", "r", "o", "m">>, <<"f", "r", "o", "m">>),
      Name(<<"C", "c">>, <<"c", "c">>) }

\* ' x', the folded ' y' CRLF ' z', and the empty value
HeaderValues ==
    { Value(<<" ", "x">>, <<"x">>),
      Value(<<" ", "y", "\r", "\n", " ", "z">>, <<"y", " ", "z">>),
      Value(<<>>, <<>>) }

HeaderFields == [name : HeaderNames, value : HeaderValues]

\* From:Cc, cc : from, from, From:To
RequestedNames ==
    { <<Name(<<"F", "r", "o", "m">>, <<"f", "r", "o", "m">>),
        Name(<<"C", "c">>, <<"c", "c">>)>>,
      <<Name(<<"c", "c", " ">>, <<"c", "c">>),
        Name(<<" ", "f", "r", "o", "m">>, <<"f", "r", "o", "m">>)>>,
      <<Name(<<"f", "r", "o", "m">>, <<"f", "r", "o", "m">>)>>,
      <<Name(<<"F", "r", "o", "m">>, <<"f", "r", "o", "m">>),
        Name(<<"T", "o">>, <<"t", "o">>)>> }

\* the header block as text: one 'name:value' per field, CRLF between fields
HeaderText(block) ==
    Join([i \in DOMAIN block |-> block[i].name.raw \o <<":">> \o block[i].value.raw],
         <<"\r", "\n">>)

\* the requested names as text: 'name:name'
NamesText(names) == Join([i \in DOMAIN names |-> names[i].raw], <<":">>)

\* "From: a@x\r\nSubject: Hi\r\n there\r\n" with "from:subject"
FromSubject ==
    [block |->
        << [name |-> Name(<<"F", "r", "o", "m">>, <<"f", "r", "o", "m">>),
            value |-> Value(<<" ", "a", "@", "x">>, <<"a", "@", "x">>)],
           [name |-> Name(<<"S", "u", "b", "j", "e", "c", "t">>,
                          <<"s", "u", "b", "j", "e", "c", "t">>),
            value |-> Value(<<" ", "H", "i", "\r", "\n", " ", "t", "h", "e", "r", "e">>,
                            <<"H", "i", " ", "t", "h", "e", "r", "e">>)] >>,
     names |-> << Name(<<"f", "r", "o", "m">>, <<"f", "r", "o", "m">>),
                  Name(<<"s", "u", "b", "j", "e", "c", "t">>,
                       <<"s", "u", "b", "j", "e", "c", "t">>) >>,
     tail |-> CRLF]

\* the header block ends with its last field or with the terminator of
\* that field's line
InitHeaders ==
    /\ NoSend
    /\ input \in [block : UNION {[1..n -> HeaderFields] : n \in 1..MaxHeaders},
                   names : RequestedNames, tail : {<<>>, CRLF}]
                  \cup {FromSubject}
    /\ output = <<>>
    /\ step = 0

\* relaxedHeaders(headers, fieldNames)
CanonicalizeHeaders ==
    /\ step = 0
    /\ output' = relaxedHeaders(HeaderText(input.block) \o input.tail,
                                NamesText(input.names))
    /\ step' = 1
    /\ UNCHANGED <<input, sendvars>>

NextHeaders == CanonicalizeHeaders

SpecHeaders == InitHeaders /\ [][NextHeaders]_vars

(***************************************************************************)
(* Calls of DKIMSign, from the point where the body hash, the kept names   *)
(* and the signature are known: the header it returns is                   *)
(* generateDKIMHeader(...) followed by the folded signature.               *)
(***************************************************************************)
Repeat(c, n) == [i \in 1..n |-> c]

\* domain names of 11 and of 40 characters
DomainNames == {Repeat("d", 11), Repeat("d", 40)}
\* key selectors of 7 and of 20 characters
KeySelectors == {Repeat("s", 7), Repeat("s", 20)}
\* sha256 in base64: 44 characters
BodyHash == Repeat("h", 44)
\* signatures in base64: none, around the first fold, around the second
\* fold, of a 1024 bit key and of a 2048 bit key
Signatures == {Repeat("A", n) : n \in {0, 72, 73, 74, 148, 172, 344}}

\* the kept names 'from'
KeptFrom ==
    <<"f", "r", "o", "m">>

\* the kept names of a message with From, Subject, To, Cc, MIME-Version and
\* Content-Type
KeptSix ==
    <<"f", "r", "o", "m", ":", "s", "u", "b", "j", "e", "c", "t", ":",
    "t", "o", ":", "c", "c", ":", "m", "i", "m", "e", "-", "v", "e", "r",
    "s", "i", "o", "n", ":", "c", "o", "n", "t", "e", "n", "t", "-", "t",
    "y", "p", "e">>

\* the kept names of a message that also has Sender, Reply-To, In-Reply-To,
\* References, List-Id and List-Unsubscribe
KeptTwelve ==
    <<"f", "r", "o", "m", ":", "s", "e", "n", "d", "e", "r", ":", "r",
    "e", "p", "l", "y", "-", "t", "o", ":", "s", "u", "b", "j", "e", "c",
    "t", ":", "t", "o", ":", "c", "c", ":", "m", "i", "m", "e", "-", "v",
    "e", "r", "s", "i", "o", "n", ":", "c", "o", "n", "t", "e", "n", "t",
    "-", "t", "y", "p", "e", ":", "i", "n", "-", "r", "e", "p", "l", "y",
    "-", "t", "o", ":", "r", "e", "f", "e", "r", "e", "n", "c", "e", "s",
    ":", "l", "i", "s", "t", "-", "i", "d", ":", "l", "i", "s", "t", "-",
    "u", "n", "s", "u", "b", "s", "c", "r", "i", "b", "e">>

KeptLists == {KeptFrom, KeptSix, KeptTwelve}

InitSign ==
    /\ NoSend
    /\ input \in [domainName : DomainNames, keySelector : KeySelectors,
                   fieldNames : KeptLists, signature : Signatures]
    /\ output = <<>>
    /\ step = 0

\* return dkim + signature.replace(...).trim()
Sign ==
    /\ step = 0
    /\ output' = generateDKIMHeader(input.domainName, input.keySelector,
                                    BodyHash, input.fieldNames)
                     \o FoldSignature(input.signature)
    /\ step' = 1
    /\ UNCHANGED <<input, sendvars>>

NextSign == Sign

SpecSign == InitSign /\ [][NextSign]_vars

(***************************************************************************)
(* Calls of DKIMSign, up to the body hash: the message is split into       *)
(* headers and body and the body is canonicalized for hashing.  The input  *)
(* is kept as the parts the message is written from: the header block      *)
(* (without the terminator of its last line), the line terminator, the     *)
(* body.                                                                   *)
(***************************************************************************)
\* the length of the match of \r?\n at position i of s, 0 when there is none
NewlineAt(s, i) ==
    IF i <= Len(s) /\ s[i] = "\n" THEN 1
    ELSE IF i < Len(s) /\ s[i] = "\r" /\ s[i + 1] = "\n" THEN 2
    ELSE 0

\* the length of the match of /^\r?\n|(?:\r?\n){2}/ at position i of s
\* (without the m flag ^ is the start of the text), 0 when there is none
MatchAt(s, i) ==
    IF i = 1 /\ NewlineAt(s, 1) > 0 THEN NewlineAt(s, 1)
    ELSE IF NewlineAt(s, i) > 0 /\ NewlineAt(s, i + NewlineAt(s, i)) > 0
    THEN NewlineAt(s, i) + NewlineAt(s, i + NewlineAt(s, i))
    ELSE 0

\* email.match(...): the leftmost match, index 0 standing for null
Match(email) ==
    IF \A i \in DOMAIN email : MatchAt(email, i) = 0
    THEN [index |-> 0, length |-> 0]
    ELSE LET k == CHOOSE i \in DOMAIN email :
                      /\ MatchAt(email, i) > 0
                      /\ \A j \in 1..(i - 1) : MatchAt(email, j) = 0
         IN  [index |-> k, length |-> MatchAt(email, k)]

\* The headers and the body DKIMSign works on, and the text whose hash is
\* bh (generateDKIMHeader); '' is falsy in  match && ... || email
DKIMSign(email) ==
    LET match == Match(email)
        before == SubSeq(email, 1, match.index - 1)
        after == SubSeq(email, match.index + match.length, Len(email))
        headers == IF match.index > 0 /\ before # <<>> THEN before ELSE <<>>
        body == IF match.index > 0 /\ after # <<>> THEN after ELSE email
    IN  [headers |-> headers, body |-> body,
         canonicalizedBody |-> relaxedBody(body)]

\* no header; 'F:a'; 'F:a' CRLF 'T:b'; 'F:a' LF 'T:b'
EmailHeaders ==
    { <<>>, <<"F", ":", "a">>,
      <<"F", ":", "a", "\r", "\n", "T", ":", "b">>,
      <<"F", ":", "a", "\n", "T", ":", "b">> }

\* the line terminators a message is written with
Terminators == {<<"\r", "\n">>, <<"\n">>}

\* the message as text: the header lines, the blank line, the body
EmailText(m) ==
    (IF m.headers = <<>> THEN <<>> ELSE m.headers \o m.nl) \o m.nl \o m.body

InitEmail ==
    /\ NoSend
    /\ input \in [headers : EmailHeaders, nl : Terminators, body : Bodies]
    /\ output = <<>>
    /\ step = 0

\* DKIMSign(email, options)
SignEmail ==
    /\ step = 0
    /\ output' = DKIMSign(EmailText(input))
    /\ step' = 1
    /\ UNCHANGED <<input, sendvars>>

NextEmail == SignEmail

SpecEmail == InitEmail /\ [][NextEmail]_vars

(***************************************************************************)
(* Vocabulary of the properties.                                           *)
(***************************************************************************)
IsPrefix(a, b) == Len(a) <= Len(b) /\ a = SubSeq(b, 1, Len(a))

\* the commands of a wire, the message reduced to its place
Shape(w) ==
    [i \in 1..Len(w) |-> IF w[i].cmd = "MESSAGE" THEN Cmd("MESSAGE") ELSE w[i]]

\* the recipients of the envelope that belong to group s, in the order
\* to, cc, bcc
RecipientsInOrder(s) ==
    SelectSeq(env.to \o env.cc.list \o env.bcc.list,
              LAMBDA r : r.domain = groups[s].recipients[1].domain)

\* EHLO, STARTTLS, EHLO, MAIL FROM, RCPT TO ..., DATA, message, '.', QUIT
Transcript(s) ==
    <<Cmd("EHLO"), Cmd("STARTTLS"), Cmd("EHLO"), Cmd("MAIL FROM")>>
        \o [i \in 1..Len(RecipientsInOrder(s)) |-> RcptTo(RecipientsInOrder(s)[i])]
        \o <<Cmd("DATA"), Cmd("MESSAGE"), Cmd("."), Cmd("QUIT")>>

\* the number of entries of the transcript that k answered steps of the
\* script call for: each response is followed by the next command
Due(s, k) ==
    LET n == NRcpt(s)
    IN  IF k <= 2 THEN k
        ELSE IF k = 3 THEN 2
        ELSE IF k <= 6 + n THEN k - 1
        ELSE IF k = ScriptLen(s) THEN 8 + n
        ELSE IF k = 7 + n /\ env.attachments THEN 5 + n
        ELSE 7 + n

IsCommand(x) == x.cmd \notin {"MESSAGE", "."}
NumCommands(w) == Len(SelectSeq(w, IsCommand))

\* the message and its terminator were written, and QUIT after them
DeliveredThenQuit(w) ==
    \E i, j \in 1..Len(w) :
        /\ i + 1 < j
        /\ w[i].cmd = "MESSAGE" /\ w[i + 1].cmd = "." /\ w[j].cmd = "QUIT"

Wrote(w, c) == \E i \in 1..Len(w) : w[i].cmd = c

ResponseErrors == {"SMTP error: response", "TLS error: response"}

\* what a caller and the server observe of a session
Obs(st) == [wire |-> st.wire, promise |-> st.promise, err |-> st.err]

(***************************************************************************)
(* C1.  While the server answers every step of a session with its success  *)
(* response (script), what the client has written is a prefix of the       *)
(* transcript EHLO, STARTTLS, EHLO, MAIL FROM, RCPT TO per recipient in    *)
(* the order (to, cc, bcc), DATA, message, '.', QUIT; every answered step  *)
(* is followed by the next entry of the transcript (the 220 to STARTTLS by *)
(* the TLS handshake), and after the last response the whole transcript    *)
(* and nothing else has been written.                                      *)
(***************************************************************************)
C1_SuccessTranscript ==
    \A s \in Sessions :
        script[s] # OffScript =>
            /\ IsPrefix(Shape(sess[s].wire), Transcript(s))
            /\ Len(sess[s].wire) >= Due(s, script[s])
            /\ script[s] >= 3 => sess[s].tls # "none"

(***************************************************************************)
(* C2.  send() returns success only if every group's session wrote the     *)
(* message and its terminator and, after them, QUIT (which is written on   *)
(* the 250 response containing 2.0.0).                                     *)
(***************************************************************************)
C2_SuccessOnlyAfterDelivery ==
    result = "ok" => \A s \in Sessions : DeliveredThenQuit(sess[s].wire)

(***************************************************************************)
(* C3.  A 250 reply to the first EHLO that does not advertise STARTTLS     *)
(* makes the session and send() fail with 'Must accept TLS', and a session *)
(* that failed so has its socket destroyed and has never written MAIL      *)
(* FROM, RCPT TO, DATA or the message.                                     *)
(***************************************************************************)
C3_NoStartTlsFails ==
    /\ [][\A s \in Sessions : \A chunk \in Chunks :
            (/\ ~sess[s].greeted /\ Code(chunk) = 250 /\ ~Advertises(chunk)
             /\ ClientData(s, chunk))
            => /\ sess'[s].promise = "rejected"
               /\ sess'[s].err = "Must accept TLS"
               /\ result' = "rejected" /\ error' = "Must accept TLS"]_vars
    /\ [](\A s \in Sessions :
            sess[s].err = "Must accept TLS" =>
                /\ sess[s].conn = "destroyed"
                /\ \A c \in {"MAIL FROM", "RCPT TO", "DATA", "MESSAGE"} :
                      ~Wrote(sess[s].wire, c))

C3_Witness ==
    \E s \in Sessions :
        /\ sess[s].err = "Must accept TLS" /\ result = "rejected"
        /\ Wrote(sess[s].wire, "EHLO")

(***************************************************************************)
(* C4.  Fail-fast: when the session of a group has failed, send() has      *)
(* failed with that session's error, and no connection was opened and      *)
(* nothing was written for any later group.                                *)
(***************************************************************************)
C4_FailFast ==
    \A s \in Sessions :
        sess[s].promise = "rejected" =>
            /\ result = "rejected" /\ error = sess[s].err
            /\ \A u \in Sessions : u > s => sess[u] = NoSession

C4_Witness ==
    /\ Len(groups) = 2
    /\ sess[1].promise = "rejected" /\ result = "rejected"
    /\ sess[2] = NoSession

C6_TransientErrorFails ==
    [][\A s \in Sessions : \A chunk \in Chunks :
        (/\ Code(chunk) \in 400..499 /\ sess[s].promise = "pending"
         /\ ClientData(s, chunk) \/ TlsData(s, chunk))
        => sess'[s].promise = "rejected"]_vars

(***************************************************************************)
(* C7.  A pending session that waits for the server has a timeout armed    *)
(* (the guard of ClientTimeout, the only event of a session whose server   *)
(* is silent), so that a silent server makes it fail.  The timeout option  *)
(* passed to tls.connect arms a timer on the TLS socket, which has no      *)
(* 'timeout' listener.                                                     *)
(***************************************************************************)
C7_TimeoutArmedWhileWaiting ==
    \A s \in Sessions :
        (/\ sess[s].conn = "open" /\ sess[s].promise = "pending"
         /\ sess[s].building = 0)
        => sess[s].timer

(***************************************************************************)
(* C8.  No pipelining: one event of a session (one response received, or   *)
(* the end of the TLS handshake) is followed by at most one new command.   *)
(***************************************************************************)
C8_OneCommandPerResponse ==
    [][\A s \in Sessions :
        NumCommands(sess'[s].wire) <= NumCommands(sess[s].wire) + 1]_vars

(***************************************************************************)
(* C9.  For every split of the server's lines into data events, the first  *)
(* session has written the same commands and has the same outcome as the   *)
(* reference reader, which acts on complete responses only.                *)
(***************************************************************************)
C9_ActsOnCompleteResponses == Obs(sess[1]) = Obs(ref)

(***************************************************************************)
(* C10.  Every bcc recipient is named in a RCPT TO of its group's session  *)
(* (once that session has written its envelope commands), and no message   *)
(* written has a Bcc header or names a bcc address in a header.            *)
(***************************************************************************)
C10_BccHidden ==
    \A s \in Sessions :
        /\ Wrote(sess[s].wire, "DATA") =>
              \A i \in 1..Len(env.bcc.list) :
                  env.bcc.list[i].domain = groups[s].recipients[1].domain
                      => \E j \in 1..Len(sess[s].wire) :
                            sess[s].wire[j] = RcptTo(env.bcc.list[i])
        /\ \A j \in 1..Len(sess[s].wire) :
              sess[s].wire[j].cmd = "MESSAGE" =>
                  \A h \in 1..Len(sess[s].wire[j].arg[1].headers) :
                      LET hd == sess[s].wire[j].arg[1].headers[h]
                      IN  /\ hd.name \notin {"BCC", "Bcc"}
                          /\ \A i \in 1..Len(env.bcc.list) :
                                \A a \in 1..Len(hd.addrs) :
                                    hd.addrs[a] # env.bcc.list[i]

(***************************************************************************)
(* C11.  Every line of the message that begins with '.' is on the wire     *)
(* with that dot doubled ('.' as '..', '..x' as '...x'), so that no line   *)
(* of a written message is a single '.': the only such line on the wire is *)
(* the terminator written after the message.                               *)
(***************************************************************************)
DotStuffed(line) ==
    IF line # <<>> /\ line[1] = "." THEN <<".">> \o line ELSE line

C11_DotStuffing ==
    \A s \in Sessions : \A j \in 1..Len(sess[s].wire) :
        sess[s].wire[j].cmd = "MESSAGE" =>
            LET written == sess[s].wire[j].arg[1].body
            IN  /\ written = [i \in 1..Len(env.body) |-> DotStuffed(env.body[i])]
                /\ \A i \in 1..Len(written) : written[i] # <<".">>

(***************************************************************************)
(* C12.  Over one send(), every distinct address of to, cc and bcc is      *)
(* named in at most one RCPT TO, and in exactly one once the session of    *)
(* its group has written its envelope commands (MAIL FROM ... DATA), also  *)
(* when the address is listed more than once in the envelope.              *)
(***************************************************************************)
Addresses == {AllRecipients(env)[i] : i \in 1..Len(AllRecipients(env))}

\* the number of RCPT TO commands naming r over all sessions
NumRcptTo(r) ==
    Cardinality(UNION {{<<s, j>> : j \in {k \in DOMAIN sess[s].wire :
                                              sess[s].wire[k] = RcptTo(r)}} :
                       s \in Sessions})

C12_OneRcptPerAddress ==
    \A r \in Addresses :
        /\ NumRcptTo(r) <= 1
        /\ \A s \in Sessions :
              (Wrote(sess[s].wire, "DATA") /\ DomainOf(r) = DomainOf(groups[s].recipients[1]))
                  => NumRcptTo(r) = 1

(***************************************************************************)
(* C13.  The groups getRecipientsByMx returns partition the recipients by  *)
(* domain: no group is empty, the recipients of a group have one domain,   *)
(* two groups have different domains, every domain of the envelope has a   *)
(* group, and every recipient of to, cc and bcc is in exactly one group    *)
(* (as often as the envelope lists it).  to=[a@ex1.com], cc=[b@ex1.com],   *)
(* bcc=[c@ex2.com] gives two groups, of two recipients and of one.         *)
(***************************************************************************)
Occurrences(seq, r) == Cardinality({i \in DOMAIN seq : seq[i] = r})

GroupDomains(g) == {DomainOf(g.recipients[i]) : i \in DOMAIN g.recipients}

C13_GroupsPartition ==
    groups # <<>> =>
        /\ \A g \in DOMAIN groups :
              /\ groups[g].recipients # <<>>
              /\ Cardinality(GroupDomains(groups[g])) = 1
              /\ \A h \in DOMAIN groups :
                    h # g => GroupDomains(groups[h]) \cap GroupDomains(groups[g]) = {}
        /\ \A d \in DomainsOf(env) :
              \E g \in DOMAIN groups : d \in GroupDomains(groups[g])
        /\ \A r \in Addresses :
              \E g \in DOMAIN groups :
                  /\ Occurrences(groups[g].recipients, r)
                        = Occurrences(AllRecipients(env), r)
                  /\ \A h \in DOMAIN groups :
                        h # g => Occurrences(groups[h].recipients, r) = 0
        /\ (env.to = <<A1>> /\ env.cc = List(<<B1>>) /\ env.bcc = List(<<C2>>))
              => /\ Len(groups) = 2
                 /\ Len(groups[1].recipients) = 2
                 /\ Len(groups[2].recipients) = 1

C13_Witness ==
    /\ env.to = <<A1>> /\ env.cc = List(<<B1>>) /\ env.bcc = List(<<C2>>)
    /\ Len(groups) = 2
    /\ groups[1].recipients = <<A1, B1>> /\ groups[2].recipients = <<C2>>

(***************************************************************************)
(* C15.  A lookup that was answered with a non-empty list of MX records    *)
(* before its timer fired has resolved, and a lookup that has resolved has *)
(* resolved to the exchange of a record whose priority is minimal among    *)
(* the records of the answer.                                              *)
(***************************************************************************)
C15_MinimalPreference ==
    \A d \in DOMAIN lookup :
        LET lk == lookup[d]
        IN  /\ (lk.answered /\ lk.addresses # <<>>) =>
                  \/ lk.promise = "resolved"
                  \/ lk.promise = "rejected" /\ lk.value = "DNS resolution timed out"
            /\ lk.promise = "resolved" =>
                  \E i \in DOMAIN lk.addresses :
                      /\ lk.addresses[i].exchange = lk.value
                      /\ \A j \in DOMAIN lk.addresses :
                            lk.addresses[i].priority <= lk.addresses[j].priority

C15_Witness ==
    \E d \in DOMAIN lookup :
        /\ lookup[d].addresses = <<MxRecord(20, "mx1"), MxRecord(10, "mx2")>>
        /\ lookup[d].promise = "resolved" /\ lookup[d].value = "mx2"

(***************************************************************************)
(* C14.  A session that has failed (its promise is rejected, whatever the  *)
(* cause), and so made send() return its error, has its socket destroyed.  *)
(***************************************************************************)
C14_FailedSessionDestroyed ==
    \A s \in Sessions :
        sess[s].promise = "rejected" => sess[s].conn = "destroyed"

(***************************************************************************)
(* C18.  relaxedBody is idempotent: canonicalizing the result of           *)
(* relaxedBody (step 2: input is the first result, output the second)      *)
(* gives that result again.                                                *)
(***************************************************************************)
C18_RelaxedBodyIdempotent == step = 2 => output = input

C18_Witness ==
    step = 2 /\ output = <<"a", " ", "a", "\r", "\n">>

(***************************************************************************)
(* C19.  A body and each of its variants have the same relaxedBody: the    *)
(* body followed by one more line ending, the body with its line endings   *)
(* all CR, all LF or all CRLF, with a space or a tab added at the end of   *)
(* a line, or with a space or a tab added to a run of spaces and tabs.  An *)
(* empty or whitespace-only body gives CRLF, and the body                  *)
(* "Hello  world  \r\n\r\n\r\n" gives "Hello world\r\n".                  *)
(***************************************************************************)
LineEndings == {<<"\r">>, <<"\n">>, <<"\r", "\n">>}

\* the lines of a body, whatever its line endings
BodyLines(b) == Split(NormalizeNewlines(b), "\n")

Variants(b) ==
    {b \o e : e \in LineEndings}
    \cup {Join(BodyLines(b), e) : e \in LineEndings}
    \cup {Join([BodyLines(b) EXCEPT ![k] = @ \o <<w>>], <<"\r", "\n">>) :
             k \in DOMAIN BodyLines(b), w \in {" ", "\t"}}
    \cup {SubSeq(b, 1, i) \o <<w>> \o SubSeq(b, i + 1, Len(b)) :
             i \in {j \in DOMAIN b : b[j] \in {" ", "\t"}}, w \in {" ", "\t"}}

C19_RelaxedBodyEquivalences ==
    step = 1 =>
        /\ \A v \in Variants(input) : relaxedBody(v) = output
        /\ (\A i \in DOMAIN input : IsSpace(input[i])) => output = <<"\r", "\n">>
        /\ input = HelloBody =>
              output = <<"H", "e", "l", "l", "o", " ", "w", "o", "r", "l", "d",
                         "\r", "\n">>

C19_Witness ==
    /\ step = 1 /\ input = HelloBody
    /\ output = <<"H", "e", "l", "l", "o", " ", "w", "o", "r", "l", "d",
                  "\r", "\n">>

(***************************************************************************)
(* C16.  For every requested name that relaxedHeaders keeps, the line of   *)
(* the canonical block for that name holds the value of one occurrence of  *)
(* the name in the header block, and the other occurrences do not          *)
(* influence the result: the block and the kept names are those of the     *)
(* header block with only that occurrence of each name.                    *)
(*   C16_TopmostOccurrenceSigned     the occurrence is the topmost one     *)
(*   C16_BottommostOccurrenceSigned  the occurrence is the bottommost one  *)
(***************************************************************************)
Occurs(block, lower) == \E i \in DOMAIN block : block[i].name.lower = lower

Topmost(block, lower) ==
    CHOOSE i \in DOMAIN block :
        block[i].name.lower = lower
            /\ \A j \in DOMAIN block : j < i => block[j].name.lower # lower

Bottommost(block, lower) ==
    CHOOSE i \in DOMAIN block :
        block[i].name.lower = lower
            /\ \A j \in DOMAIN block : j > i => block[j].name.lower # lower

\* the names of the h= result
KeptNames(out) == IF out.fieldNames = <<>> THEN <<>> ELSE Split(out.fieldNames, ":")

\* the canonical block for the kept names, each with the value of the
\* occurrence Pick chooses
BlockOf(block, kept, Pick(_, _)) ==
    Join([i \in DOMAIN kept |->
             kept[i] \o <<":">> \o block[Pick(block, kept[i])].value.canon],
         <<"\r", "\n">>) \o <<"\r", "\n">>

\* the header block with only the occurrence Pick chooses of each name
Only(block, Pick(_, _)) ==
    SelectSeq([i \in DOMAIN block |-> [f |-> block[i], at |-> i]],
              LAMBDA x : Pick(block, x.f.name.lower) = x.at)

OnlyFields(block, Pick(_, _)) ==
    [i \in DOMAIN Only(block, Pick) |-> Only(block, Pick)[i].f]

C16_TopmostOccurrenceSigned ==
    step = 1 =>
        /\ \A i \in DOMAIN KeptNames(output) : Occurs(input.block, KeptNames(output)[i])
        /\ output.headers = BlockOf(input.block, KeptNames(output), Topmost)
        /\ output = relaxedHeaders(HeaderText(OnlyFields(input.block, Topmost)),
                                   NamesText(input.names))

C16_BottommostOccurrenceSigned ==
    step = 1 =>
        /\ \A i \in DOMAIN KeptNames(output) : Occurs(input.block, KeptNames(output)[i])
        /\ output.headers = BlockOf(input.block, KeptNames(output), Bottommost)
        /\ output = relaxedHeaders(HeaderText(OnlyFields(input.block, Bottommost)),
                                   NamesText(input.names))

\* From: x above from: y z, both requested as from: 'from:y z' is signed
C16_Witness ==
    /\ step = 1
    /\ Len(input.block) = 2
    /\ input.block[1].name.lower = input.block[2].name.lower
    /\ input.block[1].value.canon = <<"x">>
    /\ input.block[2].value.canon = <<"y", " ", "z">>
    /\ output.headers = <<"f", "r", "o", "m", ":", "y", " ", "z", "\r", "\n">>

(***************************************************************************)
(* C17.  The kept names are the requested names, in lower case and in the  *)
(* requested order, that have at least one field in the header block (a    *)
(* field with an empty value counts); a name with no field is dropped.     *)
(***************************************************************************)
C17_KeptNames ==
    step = 1 =>
        LET present == SelectSeq(input.names,
                                 LAMBDA n : Occurs(input.block, n.lower))
        IN  output.fieldNames
                = Join([i \in DOMAIN present |-> present[i].lower], <<":">>)

(***************************************************************************)
(* C20.  In the header DKIMSign returns, no line (the characters between   *)
(* two CRLFs) is longer than 76, and every line after the first begins     *)
(* with exactly one space.                                                 *)
(***************************************************************************)
\* the places of the CRLFs of a text, and the places where its lines begin
CRLFs(text) ==
    {i \in 1..(Len(text) - 1) : text[i] = "\r" /\ text[i + 1] = "\n"}

LineStarts(text) == {1} \cup {i + 2 : i \in CRLFs(text)}

\* the line that begins at s: up to the next CRLF or the end of the text
LineFrom(text, s) ==
    LET ends == {i \in CRLFs(text) : i >= s} \cup {Len(text) + 1}
    IN  SubSeq(text, s, (CHOOSE e \in ends : \A x \in ends : e <= x) - 1)

C20_FoldedWithin76 ==
    step = 1 =>
        \A s \in LineStarts(output) :
            LET line == LineFrom(output, s)
            IN  /\ Len(line) <= 76
                /\ s > 1 => /\ line # <<>> /\ line[1] = " "
                            /\ Len(line) > 1 => line[2] # " "

(***************************************************************************)
(* C21: every line terminator of the message produced by createEmailMessage *)
(* is CRLF (no LF without a CR before it, no CR without an LF after it),   *)
(* with or without html part and attachments, and what is written for DATA *)
(* ends with CR LF '.' CR LF: the message ends with CRLF and the line '.'  *)
(* follows it.                                                             *)
(***************************************************************************)
BareNewline(t) ==
    \E i \in 1..Len(t) :
        \/ t[i] = "\n" /\ (i = 1 \/ t[i - 1] # "\r")
        \/ t[i] = "\r" /\ (i = Len(t) \/ t[i + 1] # "\n")

EndsWithCRLF(t) == Len(t) >= 2 /\ SubSeq(t, Len(t) - 1, Len(t)) = CRLF

C21_CRLFOnly ==
    \A s \in Sessions : \A i \in DOMAIN sess[s].wire :
        sess[s].wire[i].cmd = "MESSAGE" =>
            /\ ~BareNewline(sess[s].wire[i].arg[1].text)
            /\ EndsWithCRLF(sess[s].wire[i].arg[1].text)
            /\ i < Len(sess[s].wire) /\ sess[s].wire[i + 1] = Cmd(".")

(***************************************************************************)
(* C22: whenever the 250 reply to the first EHLO advertises STARTTLS, on   *)
(* a continuation line '250-STARTTLS' or on the final line '250 STARTTLS', *)
(* the client writes STARTTLS and goes on waiting (socket open, session    *)
(* pending) instead of failing.                                            *)
(***************************************************************************)
C22_StartTlsOnAnyLine ==
    [][\A s \in Sessions : \A chunk \in Chunks :
        (/\ ~sess[s].greeted /\ sess[s].wire = <<Cmd("EHLO")>>
         /\ Complete(chunk) /\ Code(chunk) = 250 /\ Advertises(chunk)
         /\ ClientData(s, chunk))
        => /\ sess'[s].wire = <<Cmd("EHLO"), Cmd("STARTTLS")>>
           /\ sess'[s].conn = "open" /\ sess'[s].promise = "pending"]_vars

(***************************************************************************)
(* C23: after STARTTLS has been written, every 220 response, whatever its  *)
(* text, makes the client start the TLS handshake, and when the handshake  *)
(* succeeds the client writes EHLO over the TLS connection.                *)
(***************************************************************************)
C23_Any220StartsTls ==
    /\ [][\A s \in Sessions : \A chunk \in Chunks :
            (/\ sess[s].greeted /\ Wrote(sess[s].wire, "STARTTLS")
             /\ Complete(chunk) /\ Code(chunk) = 220
             /\ ClientData(s, chunk))
            => sess'[s].tls = "handshake"]_vars
    /\ [][\A s \in Sessions :
            SecureConnect(s) =>
                /\ sess'[s].tls = "up"
                /\ sess'[s].wire = Append(sess[s].wire, Cmd("EHLO"))]_vars

(***************************************************************************)
(* C24: DKIMSign splits the message at the first blank line: the headers   *)
(* are the text before it and the body is the text after it, also when     *)
(* that body is empty; then the text hashed for bh is a single CRLF and    *)
(* holds no header text.                                                   *)
(***************************************************************************)
C24_SplitAtFirstBlankLine ==
    step = 1 =>
        /\ output.headers = input.headers
        /\ output.body = input.body
        /\ input.body = <<>> => output.canonicalizedBody = CRLF

(***************************************************************************)
(* C25: relaxedHeaders unfolds continuation lines before it selects, and   *)
(* the canonical block is the selected headers in requested order, each as *)
(* '<lowercased-name>:<value>' followed by CRLF, the value with its        *)
(* whitespace runs collapsed to one space and trimmed, and nothing else;   *)
(* "From: a@x\r\nSubject: Hi\r\n there\r\n" with "from:subject" gives the  *)
(* kept names "from:subject" and the block                                 *)
(* "from:a@x\r\nsubject:Hi there\r\n".                                     *)
(***************************************************************************)
HeaderLinesOf(block, kept) ==
    Join([i \in DOMAIN kept |->
             kept[i] \o <<":">> \o block[Bottommost(block, kept[i])].value.canon
                 \o CRLF],
         <<>>)

RequestedLower == [i \in DOMAIN input.names |-> input.names[i].lower]

C25_CanonicalBlock ==
    step = 1 =>
        /\ \A i \in DOMAIN KeptNames(output) : Occurs(input.block, KeptNames(output)[i])
        /\ KeptNames(output) =
              SelectSeq(RequestedLower,
                        LAMBDA n : \E i \in DOMAIN KeptNames(output) :
                                       KeptNames(output)[i] = n)
        /\ output.headers = HeaderLinesOf(input.block, KeptNames(output))
        /\ input = FromSubject =>
              /\ output.fieldNames =
                    <<"f", "r", "o", "m", ":", "s", "u", "b", "j", "e", "c", "t">>
              /\ output.headers =
                    <<"f", "r", "o", "m", ":", "a", "@", "x", "\r", "\n",
                      "s", "u", "b", "j", "e", "c", "t", ":", "H", "i", " ",
                      "t", "h", "e", "r", "e", "\r", "\n">>

(***************************************************************************)
(* C26: the groups are processed one after another: the connection of a    *)
(* group is opened only after the session of the group before it received  *)
(* its 250 2.0.0 acknowledgement (the session is resolved), wrote QUIT and *)
(* ended its socket, and once a later connection is open nothing is        *)
(* written in an earlier session: no two sessions exchange commands at the *)
(* same time.                                                              *)
(***************************************************************************)
C26_GroupsInSequence ==
    /\ [](\A s \in Sessions : \A u \in Sessions :
            (s < u /\ sess[u] # NoSession) =>
                /\ sess[s].promise = "resolved"
                /\ Wrote(sess[s].wire, "QUIT")
                /\ sess[s].conn \in {"ended", "destroyed"})
    /\ [][\A s \in Sessions : \A u \in Sessions :
            (s < u /\ sess[u] # NoSession) => sess'[s].wire = sess[s].wire]_vars

\* the second group's session has written commands after the first ended
C26_Witness ==
    /\ Len(groups) = 2
    /\ sess[1].promise = "resolved"
    /\ Wrote(sess[2].wire, "MAIL FROM")

(***************************************************************************)
(* C27: if the MX resolution of any recipient domain fails (DNS error,     *)
(* empty MX list, or the lookup's timer firing before the DNS answer, also *)
(* when the answer arrives afterwards), send() fails with the error of a   *)
(* failed resolution and no connection is opened to any group, the groups  *)
(* whose own lookup succeeded included.                                    *)
(***************************************************************************)
ResolutionErrors ==
    {"Failed to resolve MX records", "No MX records found",
     "DNS resolution timed out"}

C27_ResolutionFailureFailsSend ==
    /\ [][\A d \in DOMAIN lookup :
            /\ (lookup[d].promise = "pending" /\ MxTimeout(d))
                  => /\ lookup'[d].promise = "rejected"
                     /\ lookup'[d].value = "DNS resolution timed out"
            /\ \A ans \in DnsAnswers :
                  (/\ lookup[d].promise = "pending"
                   /\ ans.err \/ ans.addresses = <<>>
                   /\ MxAnswer(d, ans))
                  => /\ lookup'[d].promise = "rejected"
                     /\ lookup'[d].value \in ResolutionErrors
            /\ lookup[d].promise = "rejected" => lookup'[d].promise = "rejected"]_vars
    /\ []((\E d \in DOMAIN lookup : lookup[d].promise = "rejected") =>
            /\ result = "thrown"
            /\ \E d \in DOMAIN lookup :
                  lookup[d].promise = "rejected" /\ error = lookup[d].value
            /\ groups = <<>> /\ sess = <<>>)

\* one domain resolved, the other timed out and was answered afterwards
C27_Witness ==
    /\ result = "thrown" /\ error = "DNS resolution timed out"
    /\ \E d \in DOMAIN lookup : lookup[d].promise = "resolved"
    /\ \E d \in DOMAIN lookup :
          /\ lookup[d].promise = "rejected" /\ lookup[d].answered
          /\ lookup[d].addresses # <<>>

(***************************************************************************)
(* C28: when the server closes the connection before the session received  *)
(* its 250 2.0.0 acknowledgement, the session fails and send() rejects; no *)
(* session is left pending on a closed socket with nothing in flight (such *)
(* a session has no event left and stays pending forever).                 *)
(***************************************************************************)
C28_PeerCloseFails ==
    \A s \in Sessions :
        (sess[s].conn = "closed" /\ sess[s].building = 0) =>
            sess[s].promise = "rejected" /\ result = "rejected"

(***************************************************************************)
(* C29: in one session the message is written at most once and QUIT is     *)
(* written at most once, whatever the server sends (a repeated 354 or a    *)
(* repeated 250 2.0.0 included), and nothing is written after QUIT.        *)
(***************************************************************************)
NumWritten(w, c) == Cardinality({i \in DOMAIN w : w[i].cmd = c})

QuitIsLast(w) == \A i \in DOMAIN w : w[i].cmd = "QUIT" => i = Len(w)

C29_PayloadAndQuitOnce ==
    \A s \in Sessions :
        /\ NumWritten(sess[s].wire, "MESSAGE") <= 1
        /\ NumWritten(sess[s].wire, "QUIT") <= 1
        /\ QuitIsLast(sess[s].wire)

====
